---- MODULE Spec2Model ----
(***************************************************************************)
(* Pick-and-place cell: the arm controller (arm_controller.py), the        *)
(* conveyor controller (conveyor_controller.py) and the camera controller  *)
(* (camera_controller.py), and the Webots emitter/receiver queues between  *)
(* them.                                                                   *)
(*                                                                         *)
(* Lengths and angles are integers in units of 1e-5 (0.25 is 25000), so    *)
(* that the ramps s = k / STEPS stay exact; times are in milliseconds.     *)
(* A detection string is the sequence of its whitespace-separated tokens;  *)
(* a token is a record [num, val]: num says whether float() accepts it.    *)
(***************************************************************************)
EXTENDS Integers, Sequences, FiniteSets, TLC

\* ------------------------------------------------------------ constants

STEPS == 40

BASE_SHOULDER_PAN == -77960

BASE_WRIST3 == 0

\* cx0, cy0 of the saved pose: L1*cos(lift) + L2*cos(lift + elbow), and sin.
HomeCx == 117289

HomeCy == -29752

\* the lengths of the upper arm and of the forearm
L1 == 61300

L2 == 63700

\* BASE_SHOULDER_LIFT = -0.507 and BASE_ELBOW = 0.5072 as directions
\* <<cos, sin>> in units of 1e-4
BASE_SHOULDER_LIFT == <<8742, -4856>>

BASE_ELBOW == <<8741, 4857>>

\* z_end of DESCENDING (-0.37) and z_start of ASCENDING (-0.4)
DescendDepth == -37000

AscendStart == -40000

\* motor.setPosition(0.4) closes a finger, 0.0 opens it
FingerClosed == 40000

FingerOpen == 0

\* math.pi
PI == 314159

\* self.max_detection_retries
max_detection_retries == 3

\* for _ in range(10): the polls of one attempt
PollSteps == 10

\* for _ in range(5): the wait before a retry
SettleSteps == 5

\* the angle send_image_to_yolo returns for "no detection"
NoAngle == -999

\* the conveyor: speed, thresholds and dwell (ms)
speed == 20000

threshold == 800

threshold3 == 800

stop_duration == 2000

\* the tick in ms: TIME_STEP of the arm, self.timestep of the camera, and the
\* world's basic time step the conveyor reads
TimeStep == 32

\* ------------------------------------------------------------ bounds

\* messages an environment may leave queued on one channel
MaxQueue == 2

\* pick cycles an execution starts
MaxCycles == 2

\* idle iterations counted in WAITING2 (the count saturates here)
MaxWaitTicks == 4

\* simulated time the conveyor is followed for, in ms
MaxTime == 2400

\* grasp-ready messages a flooding conveyor may leave queued
FloodLen == STEPS + 10

\* the solver's fixed-point numbers: a cosine or sine of 1 is Resolution
Resolution == 10000

\* what the fixed-point solver may be off by, in units of 1e-4 m
Tolerance == 25

\* ------------------------------------------------------------ messages

Tok(v) == [num |-> TRUE, val |-> v]

NaT == [num |-> FALSE, val |-> 0]

\* f"{pos[0]} {pos[1]} {pos[2]} {angle_rad}"
Detection(x, y, z, a) == <<Tok(x), Tok(y), Tok(z), Tok(a)>>

\* abort_message = "0.0 0.0 0.0 0.0"
AbortMessage == Detection(0, 0, 0, 0)

\* the detection strings the arm is tried on
CamMsgs ==
  { Detection(80000, 25000, 10000, 40000),
    Detection(80000, -10000, 10000, 0),
    Detection(80000, 0, 10000, 40000),
    AbortMessage,
    <<Tok(80000), Tok(25000)>>,
    <<Tok(80000), NaT, Tok(10000), Tok(40000)>>,
    <<Tok(80000), Tok(25000), Tok(10000), Tok(40000), Tok(7)>> }

\* well-formed detections with a nonzero offset
ValidDetections ==
  { Detection(80000, 25000, 10000, 40000),
    Detection(80000, -10000, 10000, 0) }

ConvMsgs == {"1", "0"}

VARIABLES
  state,                        \* self.state
  object_x,                     \* self.object_x
  object_angle,                 \* self.object_angle
  go_down_received,             \* self.go_down_received
  object_detected_and_locked,   \* self.object_detected_and_locked
  translation_back_counter,     \* self.translation_back_counter
  cx0, cy0,                     \* self.cx0, self.cy0
  pose,                         \* the last position commanded to each motor
  joints,                       \* the angles last commanded to lift and elbow
  camToArm,                     \* cam_receiver's queue
  convToArm,                    \* conv_receiver's queue
  armToConv,                    \* what the arm's emitter has sent
  cycles,                       \* history: cycles started
  descents,                     \* history: entries of DESCENDING this cycle
  fresh,                        \* history: a "1" was sent since the last descent began
  waitTicks,                    \* history: iterations spent in WAITING2
  completed,                    \* history: cycles completed
  seen,                         \* history: what the last iteration found on the camera queue
  translate_calls,              \* history: move_horiz calls of TRANSLATING this cycle
  back_calls,                   \* history: move_horiz calls of TRANSLATING_BACK this cycle
  fwd_targets,                  \* history: the points TRANSLATING handed to move_horiz this cycle
  back_targets,                 \* history: the points TRANSLATING_BACK handed to move_horiz this cycle
  issued,                       \* history: pan, fingers and sends of the last iteration, in order
  detSent,                      \* scenario: the one detection was sent
  goSentAt                      \* scenario: when the one "1" was sent

VARIABLES
  camPc,                        \* the robot.step call the camera's loop is in
  attempt,                      \* for attempt in range(max_detection_retries)
  pollK,                        \* the polling loop's index
  settleK,                      \* the settle loop's index
  convToCam,                    \* the camera receiver's queue
  camTicks,                     \* history: robot.step calls of this detection sequence
  sawObject,                    \* history: a poll of this sequence counted an object
  camSent,                      \* history: what this sequence sent to the arm
  ranSequence                   \* history: a STOP has been processed

VARIABLES
  velocity,                     \* belt_motor's velocity
  flag,                         \* self.flag
  stop_start_time,              \* self.stop_start_time
  go_down_sent,                 \* self.go_down_sent
  timer,                        \* self.timer
  has_ds3,                      \* whether the world has a device "ds3"
  now,                          \* robot.getTime(), in ms
  convRunning,                  \* the conveyor's loop has not left by break
  sensed,                       \* history: the readings of the last tick
  item                          \* scenario: where the one object on the belt is

armOwn == <<state, object_x, object_angle, go_down_received,
            object_detected_and_locked, translation_back_counter, cx0, cy0,
            pose, joints, cycles, descents, fresh, waitTicks, completed, seen,
            translate_calls, back_calls, fwd_targets, back_targets, issued,
            detSent, goSentAt>>

camOwn == <<camPc, attempt, pollK, settleK, camTicks, sawObject, camSent,
            ranSequence>>

convOwn == <<velocity, flag, stop_start_time, go_down_sent, timer, has_ds3,
             now, convRunning, sensed, item>>

vars == <<armOwn, camOwn, convOwn, camToArm, convToArm, armToConv, convToCam>>

\* ------------------------------------------------------------ the arm

States == <<"WAITING", "TRANSLATING", "WAITING2", "DESCENDING", "GRASPING",
            "ASCENDING", "TRANSLATING_BACK", "RELEASING">>

\* class State: the value of a state's name
StateValue(s) == CHOOSE i \in 1..Len(States) : States[i] = s

\* the state that follows s in the declared order, RELEASING back to WAITING
Successor(s) == States[(StateValue(s) % Len(States)) + 1]

\* [float(x) for x in data_str.split()]: the values, or a ValueError
ParseFloats(msg) ==
  IF \A i \in 1..Len(msg) : msg[i].num
    THEN [ok |-> TRUE, pos |-> [i \in 1..Len(msg) |-> msg[i].val]]
    ELSE [ok |-> FALSE, pos |-> <<>>]

\* if len(pos) >= 4
EnoughFields(pos) == Len(pos) >= 4

\* CamRead without the state test: a detection is read in every state
CamReadAnyState ==
  IF camToArm # <<>>
    THEN LET p == ParseFloats(Head(camToArm))
         IN IF p.ok /\ EnoughFields(p.pos)
              THEN <<p.pos[2], p.pos[4]>>
              ELSE <<object_x, object_angle>>
    ELSE <<object_x, object_angle>>

\* The camera receiver: the head of the queue is read in WAITING only,
\* and gives (object_x, object_angle).
CamRead ==
  IF camToArm # <<>> /\ state = "WAITING"
    THEN LET p == ParseFloats(Head(camToArm))
         IN IF p.ok /\ EnoughFields(p.pos)
              THEN <<p.pos[2], p.pos[4]>>
              ELSE <<object_x, object_angle>>
    ELSE <<object_x, object_angle>>

\* The conveyor receiver: one packet is read and popped per iteration.
ConvRead ==
  IF convToArm # <<>> /\ Head(convToArm) = "1" THEN TRUE ELSE go_down_received

\* move_horiz(X): the point handed to the two-link solver
MoveHoriz(X) == <<cx0 - X, cy0>>

\* move_vert(Z)
MoveVert(Z) == <<cx0, cy0 - Z>>

\* s = k / STEPS; V = start + s * (end - start)
Ramp(k, start, end) == start + (k * (end - start)) \div STEPS

\* ---- the two-link solver of move_horiz and move_vert
\* The solver computes on floats. Here its numbers are fixed-point and fit
\* 32-bit integers: a length is in units of 1e-4, and an angle is the
\* direction <<cos, sin>> it points in, in units of 1 / Resolution; atan2 is
\* then a normalisation, acos a square root, and the difference of two
\* angles a rotation.

\* a length of the model in the solver's unit, rounded away from 0: only 0
\* gives 0
Tenth(v) == IF v >= 0 THEN (v + 9) \div 10 ELSE -((9 - v) \div 10)

\* F of the value of v: v is worked out once, however often F uses it
Bind(v, F(_)) == CHOOSE r \in {F(x) : x \in {v}} : TRUE

RECURSIVE SqrtBetween(_, _, _)
SqrtBetween(lo, hi, n) ==
  IF lo = hi
    THEN lo
    ELSE Bind((lo + hi + 1) \div 2,
              LAMBDA mid : IF mid * mid <= n
                             THEN SqrtBetween(mid, hi, n)
                             ELSE SqrtBetween(lo, mid - 1, n))

\* math.sqrt, rounded down
Sqrt(n) == SqrtBetween(0, 46340, n)

\* math.atan2(y, x); atan2(0, 0) is the angle 0
Atan2(y, x) ==
  IF x = 0 /\ y = 0
    THEN <<Resolution, 0>>
    ELSE Bind(Sqrt(x * x + y * y),
              LAMBDA h : <<(x * Resolution) \div h, (y * Resolution) \div h>>)

\* num / den for den > 0; a quotient beyond 1 or -1 is given as just beyond
Quot(num, den) ==
  IF num > den THEN Resolution + 1
  ELSE IF num < -den THEN -(Resolution + 1)
  ELSE LET g == den \div 200000 + 1
       IN ((num \div g) * Resolution) \div (den \div g)

\* max(-1.0, min(1.0, v))
clamp(v) ==
  LET low == IF v < Resolution THEN v ELSE Resolution
  IN IF low > -Resolution THEN low ELSE -Resolution

\* math.acos raises a ValueError outside [-1, 1]
AcosDefined(v) == -Resolution <= v /\ v <= Resolution

\* math.acos(v): the angle in [0, pi] whose cosine is v
Acos(v) == <<v, Sqrt(Resolution * Resolution - v * v)>>

\* the angle a - b
AngleSub(a, b) ==
  <<(a[1] * b[1] + a[2] * b[2]) \div Resolution,
    (a[2] * b[1] - a[1] * b[2]) \div Resolution>>

\* xc, yc, R, gamma, num and den of the point p
Triangle(p) ==
  Bind(<<Tenth(p[1]), Tenth(p[2]), Tenth(L1), Tenth(L2)>>,
       LAMBDA c :
         Bind(Sqrt(c[1] * c[1] + c[2] * c[2]),
              LAMBDA R : [xc |-> c[1], yc |-> c[2], R |-> R,
                          gamma |-> Atan2(c[2], c[1]),
                          num |-> R * R + c[3] * c[3] - c[4] * c[4],
                          den |-> 2 * R * c[3]]))

\* bx, by: where the upper arm ends when it points along theta
Elbow(theta) ==
  <<(Tenth(L1) * theta[1]) \div Resolution,
    (Tenth(L1) * theta[2]) \div Resolution>>

\* the solver that takes the elbow angle for the forearm's direction
SolveAbsoluteElbow(p) ==
  Bind(Triangle(p), LAMBDA t :
    IF t.den = 0
      THEN [raised |-> TRUE, theta |-> <<>>, phi |-> <<>>]
      ELSE Bind(clamp(Quot(t.num, t.den)), LAMBDA v :
             IF ~AcosDefined(v)
               THEN [raised |-> TRUE, theta |-> <<>>, phi |-> <<>>]
               ELSE Bind(AngleSub(t.gamma, Acos(v)), LAMBDA theta :
                      Bind(Elbow(theta), LAMBDA b :
                        Bind(Atan2(t.yc - b[2], t.xc - b[1]), LAMBDA psi :
                          [raised |-> FALSE, theta |-> theta, phi |-> psi])))))

\* The body shared by move_horiz and move_vert, from the point p = (xc, yc):
\* the angles (theta, phi) it returns, or raised when num / den divides by
\* zero or acos is handed a value outside its domain.
Solve(p) ==
  Bind(Triangle(p), LAMBDA t :
    IF t.den = 0
      THEN [raised |-> TRUE, theta |-> <<>>, phi |-> <<>>]
      ELSE Bind(clamp(Quot(t.num, t.den)), LAMBDA v :
             IF ~AcosDefined(v)
               THEN [raised |-> TRUE, theta |-> <<>>, phi |-> <<>>]
               ELSE Bind(AngleSub(t.gamma, Acos(v)), LAMBDA theta :
                      Bind(Elbow(theta), LAMBDA b :
                        Bind(Atan2(t.yc - b[2], t.xc - b[1]), LAMBDA psi :
                          [raised |-> FALSE, theta |-> theta,
                           phi |-> AngleSub(psi, theta)])))))

\* the offsets the detections carry
RampOffsets == {m[2].val : m \in {c \in CamMsgs : Len(c) >= 4}}

\* the points the steps of the ramps of run() hand to the solver
RampPoints ==
  {<<HomeCx + x - (k * x) \div STEPS, HomeCy - z>> :
     k \in 0..STEPS, x \in RampOffsets, z \in {0, DescendDepth}}

\* Solve on those points, worked out once
SolveTable == [p \in RampPoints |-> Solve(p)]

\* Solve(p), read from the table where the table has it
Solved(p) == IF p \in RampPoints THEN SolveTable[p] ELSE Solve(p)

\* self.lift.setPosition(theta); self.elbow.setPosition(phi): the commands
\* are not reached when the solver raises
SetJoints(p) ==
  Bind(Solved(p), LAMBDA r : IF r.raised
                              THEN [joints EXCEPT !.raised = TRUE]
                              ELSE r)

Keep(x, a, g) ==
  /\ object_x' = x
  /\ object_angle' = a
  /\ go_down_received' = g

\* Waiting without the test of the offset: any payload starts a cycle
WaitingAnyOffset(x, a, g) ==
  IF ~object_detected_and_locked
    THEN /\ go_down_received' = FALSE
         /\ object_detected_and_locked' = TRUE
         /\ cx0' = HomeCx
         /\ cy0' = HomeCy
         /\ state' = "TRANSLATING"
         /\ object_x' = x
         /\ object_angle' = a
         /\ UNCHANGED <<translation_back_counter, pose, armToConv>>
    ELSE /\ go_down_received' = FALSE
         /\ object_x' = x
         /\ object_angle' = a
         /\ UNCHANGED <<state, object_detected_and_locked,
                        translation_back_counter, cx0, cy0, pose, armToConv>>

Waiting(x, a, g) ==
  IF x # 0 /\ ~object_detected_and_locked
    THEN /\ go_down_received' = FALSE
         /\ object_detected_and_locked' = TRUE
         /\ cx0' = HomeCx
         /\ cy0' = HomeCy
         /\ state' = "TRANSLATING"
         /\ object_x' = x
         /\ object_angle' = a
         /\ UNCHANGED <<translation_back_counter, pose, armToConv>>
    ELSE /\ go_down_received' = FALSE
         /\ object_x' = x
         /\ object_angle' = a
         /\ UNCHANGED <<state, object_detected_and_locked,
                        translation_back_counter, cx0, cy0, pose, armToConv>>

\* for k in range(self.STEPS + 1): the values of k
TranslatingRange == 0..STEPS

\* the last k of the loop
TranslatingLast == CHOOSE k \in TranslatingRange : \A j \in TranslatingRange : j <= k

\* the points the for loop hands to move_horiz, in order
TranslatingTargets(x) ==
  [i \in 1..Cardinality(TranslatingRange) |-> MoveHoriz(Ramp(i - 1, 0, -x))]

\* the for loop commands one target per k; the last command is the one that
\* stays
Translating(x, a, g) ==
  LET x_end == -x
  IN /\ pose' = [pose EXCEPT !.reach = MoveHoriz(Ramp(TranslatingLast, 0, x_end)),
                              !.pan = BASE_SHOULDER_PAN,
                              !.wrist3 = BASE_WRIST3]
     /\ cx0' = cx0 - x_end
     /\ state' = "WAITING2"
     /\ Keep(x, a, g)
     /\ UNCHANGED <<object_detected_and_locked, translation_back_counter, cy0,
                    armToConv>>

\* Waiting2 that grasps at once, without the descent
Waiting2SkipsDescent(x, a, g) ==
  /\ pose' = [pose EXCEPT !.wrist3 = a]
  /\ IF g
       THEN /\ go_down_received' = FALSE
            /\ state' = "GRASPING"
       ELSE /\ go_down_received' = g
            /\ state' = state
  /\ object_x' = x
  /\ object_angle' = a
  /\ UNCHANGED <<object_detected_and_locked, translation_back_counter, cx0, cy0,
                 armToConv>>

Waiting2(x, a, g) ==
  /\ pose' = [pose EXCEPT !.wrist3 = a]
  /\ IF g
       THEN /\ go_down_received' = FALSE
            /\ state' = "DESCENDING"
       ELSE /\ go_down_received' = g
            /\ state' = state
  /\ object_x' = x
  /\ object_angle' = a
  /\ UNCHANGED <<object_detected_and_locked, translation_back_counter, cx0, cy0,
                 armToConv>>

Descending(x, a, g) ==
  /\ pose' = [pose EXCEPT !.reach = MoveVert(Ramp(STEPS, 0, DescendDepth)),
                           !.pan = BASE_SHOULDER_PAN]
  /\ state' = "GRASPING"
  /\ Keep(x, a, g)
  /\ UNCHANGED <<object_detected_and_locked, translation_back_counter, cx0, cy0,
                 armToConv>>

Grasping(x, a, g) ==
  /\ pose' = [pose EXCEPT !.fingers = FingerClosed]
  /\ state' = "ASCENDING"
  /\ Keep(x, a, g)
  /\ UNCHANGED <<object_detected_and_locked, translation_back_counter, cx0, cy0,
                 armToConv>>

Ascending(x, a, g) ==
  /\ pose' = [pose EXCEPT !.reach = MoveVert(Ramp(STEPS, AscendStart, 0)),
                           !.pan = BASE_SHOULDER_PAN]
  /\ translation_back_counter' = STEPS
  /\ state' = "TRANSLATING_BACK"
  /\ Keep(x, a, g)
  /\ UNCHANGED <<object_detected_and_locked, cx0, cy0, armToConv>>

\* TranslatingBack that forgets to clear the offset
TranslatingBackKeepsOffset(x, a, g) ==
  IF translation_back_counter > 0
    THEN /\ pose' = [pose EXCEPT
                       !.reach = MoveHoriz(((STEPS - translation_back_counter) * x) \div STEPS),
                       !.pan = BASE_SHOULDER_PAN,
                       !.wrist3 = BASE_WRIST3]
         /\ translation_back_counter' = translation_back_counter - 1
         /\ Keep(x, a, g)
         /\ UNCHANGED <<state, object_detected_and_locked, cx0, cy0, armToConv>>
    ELSE /\ cx0' = 0
         /\ object_detected_and_locked' = FALSE
         /\ state' = "RELEASING"
         /\ Keep(x, a, g)
         /\ UNCHANGED <<translation_back_counter, cy0, pose, armToConv>>

\* TranslatingBack that leaves the lock set
TranslatingBackKeepsLock(x, a, g) ==
  IF translation_back_counter > 0
    THEN /\ pose' = [pose EXCEPT
                       !.reach = MoveHoriz(((STEPS - translation_back_counter) * x) \div STEPS),
                       !.pan = BASE_SHOULDER_PAN,
                       !.wrist3 = BASE_WRIST3]
         /\ translation_back_counter' = translation_back_counter - 1
         /\ Keep(x, a, g)
         /\ UNCHANGED <<state, object_detected_and_locked, cx0, cy0, armToConv>>
    ELSE /\ cx0' = 0
         /\ object_x' = 0
         /\ state' = "RELEASING"
         /\ object_angle' = a
         /\ go_down_received' = g
         /\ UNCHANGED <<object_detected_and_locked, translation_back_counter,
                        cy0, pose, armToConv>>

TranslatingBack(x, a, g) ==
  LET x_start == -x
      x_end == 0
  IN IF translation_back_counter > 0
       THEN LET k == STEPS - translation_back_counter
                X == x_end - (k * (x_end - x_start)) \div STEPS
            IN /\ pose' = [pose EXCEPT !.reach = MoveHoriz(-X),
                                        !.pan = BASE_SHOULDER_PAN,
                                        !.wrist3 = BASE_WRIST3]
               /\ translation_back_counter' = translation_back_counter - 1
               /\ Keep(x, a, g)
               /\ UNCHANGED <<state, object_detected_and_locked, cx0, cy0,
                              armToConv>>
       ELSE /\ cx0' = x_end
            /\ object_x' = 0
            /\ object_detected_and_locked' = FALSE
            /\ state' = "RELEASING"
            /\ object_angle' = a
            /\ go_down_received' = g
            /\ UNCHANGED <<translation_back_counter, cy0, pose, armToConv>>

\* Releasing that does not tell the conveyor
ReleasingSilent(x, a, g) ==
  /\ pose' = [pose EXCEPT !.pan = BASE_SHOULDER_PAN, !.fingers = FingerOpen]
  /\ state' = "WAITING"
  /\ Keep(x, a, g)
  /\ UNCHANGED <<object_detected_and_locked, translation_back_counter, cx0, cy0,
                 armToConv>>

\* RELEASING that sends START_CONV first
ReleasingStepsSendFirst ==
  << [pan |-> pose.pan, fingers |-> pose.fingers, send |-> TRUE],
     [pan |-> BASE_SHOULDER_PAN - PI, fingers |-> pose.fingers, send |-> FALSE],
     [pan |-> BASE_SHOULDER_PAN - PI, fingers |-> FingerOpen, send |-> FALSE],
     [pan |-> BASE_SHOULDER_PAN, fingers |-> FingerOpen, send |-> FALSE] >>

\* The statements of RELEASING in order, each with the pan and finger
\* positions commanded once it has run: pan away, open the fingers, pan
\* home, emitter.send("START_CONV").
ReleasingSteps ==
  << [pan |-> BASE_SHOULDER_PAN - PI, fingers |-> pose.fingers, send |-> FALSE],
     [pan |-> BASE_SHOULDER_PAN - PI, fingers |-> FingerOpen, send |-> FALSE],
     [pan |-> BASE_SHOULDER_PAN, fingers |-> FingerOpen, send |-> FALSE],
     [pan |-> BASE_SHOULDER_PAN, fingers |-> FingerOpen, send |-> TRUE] >>

Releasing(x, a, g) ==
  /\ pose' = [pose EXCEPT !.pan = ReleasingSteps[Len(ReleasingSteps)].pan,
                           !.fingers = ReleasingSteps[Len(ReleasingSteps)].fingers]
  /\ armToConv' = IF \E i \in 1..Len(ReleasingSteps) : ReleasingSteps[i].send
                    THEN Append(armToConv, "START_CONV")
                    ELSE armToConv
  /\ state' = "WAITING"
  /\ Keep(x, a, g)
  /\ UNCHANGED <<object_detected_and_locked, translation_back_counter, cx0, cy0>>

StateMachine(x, a, g) ==
  CASE state = "WAITING" -> Waiting(x, a, g)
    [] state = "TRANSLATING" -> Translating(x, a, g)
    [] state = "WAITING2" -> Waiting2(x, a, g)
    [] state = "DESCENDING" -> Descending(x, a, g)
    [] state = "GRASPING" -> Grasping(x, a, g)
    [] state = "ASCENDING" -> Ascending(x, a, g)
    [] state = "TRANSLATING_BACK" -> TranslatingBack(x, a, g)
    [] state = "RELEASING" -> Releasing(x, a, g)

\* One iteration of run(): both receivers, then the state machine.
ArmStep ==
  /\ StateMachine(CamRead[1], CamRead[2], ConvRead)
  /\ camToArm' = <<>>
  /\ convToArm' = IF convToArm = <<>> THEN <<>> ELSE Tail(convToArm)
  /\ cycles' = IF state = "WAITING" /\ state' = "TRANSLATING"
                 THEN cycles + 1 ELSE cycles
  /\ descents' = IF state = "WAITING" /\ state' = "TRANSLATING" THEN 0
                 ELSE IF state = "WAITING2" /\ state' = "DESCENDING"
                   THEN descents + 1 ELSE descents
  /\ fresh' = IF state = "WAITING2" /\ state' = "DESCENDING" THEN FALSE ELSE fresh
  /\ waitTicks' = IF state = "WAITING2" /\ state' = "WAITING2"
                    THEN (IF waitTicks < MaxWaitTicks THEN waitTicks + 1
                          ELSE waitTicks)
                    ELSE 0
  /\ completed' = IF state = "RELEASING" /\ state' = "WAITING"
                    THEN completed + 1 ELSE completed
  /\ seen' = [at |-> state,
              msg |-> IF camToArm = <<>> THEN <<>> ELSE Head(camToArm)]
  /\ translate_calls' = IF state = "WAITING" /\ state' = "TRANSLATING" THEN 0
                        ELSE IF state = "TRANSLATING"
                          THEN Cardinality(TranslatingRange)
                          ELSE translate_calls
  /\ back_calls' = IF state = "WAITING" /\ state' = "TRANSLATING" THEN 0
                   ELSE IF state = "TRANSLATING_BACK" /\ translation_back_counter > 0
                     THEN back_calls + 1
                     ELSE back_calls
  /\ fwd_targets' = IF state = "WAITING" /\ state' = "TRANSLATING" THEN <<>>
                    ELSE IF state = "TRANSLATING"
                      THEN TranslatingTargets(object_x)
                      ELSE fwd_targets
  /\ back_targets' = IF state = "WAITING" /\ state' = "TRANSLATING" THEN <<>>
                     ELSE IF state = "TRANSLATING_BACK" /\ translation_back_counter > 0
                       THEN Append(back_targets, pose'.reach)
                       ELSE back_targets
  /\ issued' = IF state = "RELEASING"
                 THEN ReleasingSteps
                 ELSE << [pan |-> pose'.pan, fingers |-> pose'.fingers,
                          send |-> FALSE] >>
  /\ joints' = IF \/ state \in {"TRANSLATING", "DESCENDING", "ASCENDING"}
                  \/ state = "TRANSLATING_BACK" /\ translation_back_counter > 0
                 THEN SetJoints(pose'.reach)
                 ELSE joints
  /\ UNCHANGED <<detSent, goSentAt, camOwn, convOwn, convToCam>>

ArmInit ==
  /\ state = "WAITING"
  /\ object_x = 0
  /\ object_angle = 0
  /\ go_down_received = FALSE
  /\ object_detected_and_locked = FALSE
  /\ translation_back_counter = 0
  /\ cx0 = HomeCx
  /\ cy0 = HomeCy
  /\ pose = [pan |-> BASE_SHOULDER_PAN, reach |-> <<HomeCx, HomeCy>>,
             wrist3 |-> BASE_WRIST3, fingers |-> FingerOpen]
  /\ joints = [raised |-> FALSE, theta |-> BASE_SHOULDER_LIFT,
               phi |-> BASE_ELBOW]
  /\ camToArm = <<>>
  /\ convToArm = <<>>
  /\ armToConv = <<>>
  /\ cycles = 0
  /\ descents = 0
  /\ fresh = FALSE
  /\ waitTicks = 0
  /\ completed = 0
  /\ seen = [at |-> "WAITING", msg |-> <<>>]
  /\ translate_calls = 0
  /\ back_calls = 0
  /\ fwd_targets = <<>>
  /\ back_targets = <<>>
  /\ issued = <<>>
  /\ detSent = FALSE
  /\ goSentAt = -2

\* ------------------------------------------------- the arm's environment

armProgram == <<state, object_x, object_angle, go_down_received,
                object_detected_and_locked, translation_back_counter, cx0, cy0,
                pose, joints, armToConv, cycles, descents, waitTicks, completed,
                seen,
                translate_calls, back_calls, fwd_targets, back_targets, issued>>

\* the camera's emitter queues a string for the arm
EnvCamSend(m) ==
  /\ Len(camToArm) < MaxQueue
  /\ cycles < MaxCycles
  /\ camToArm' = Append(camToArm, m)
  /\ UNCHANGED <<armProgram, convToArm, fresh, detSent, goSentAt>>
  /\ UNCHANGED <<camOwn, convOwn, convToCam>>

\* the conveyor's arm_emitter queues a string for the arm
EnvConvSend(m) ==
  /\ Len(convToArm) < MaxQueue
  /\ convToArm' = Append(convToArm, m)
  /\ fresh' = IF m = "1" THEN TRUE ELSE fresh
  /\ UNCHANGED <<armProgram, camToArm, detSent, goSentAt>>
  /\ UNCHANGED <<camOwn, convOwn, convToCam>>


\* ------------------------------------------------------------ the camera

\* camera.getRecognitionNumberOfObjects()
ObjectCounts == {0, 1, 2}

\* obj.getPosition() of the first recognised object: it lies in front of
\* the camera, so its first coordinate is not 0
Positions == {<<80000, 25000, 10000>>, <<80000, 0, 10000>>}

\* what send_image_to_yolo returns, in degrees
AnglesDeg == {NoAngle, 0, 90}

CamInbox == {"STOP", "PING"}

\* angle_rad = angle_deg * math.pi / 180.0, or 0.0 when YOLO gave nothing
AngleRad(angle_deg) ==
  IF angle_deg # NoAngle THEN (angle_deg * PI) \div 180 ELSE 0

\* FinishSequence with the test of detection_successful left out
FinishAlwaysAborts(sent, ok, a, t, saw) ==
  /\ camToArm' = camToArm \o Append(sent, AbortMessage)
  /\ camSent' = Append(sent, AbortMessage)
  /\ convToCam' = Tail(convToCam)
  /\ camPc' = "main"
  /\ attempt' = a
  /\ pollK' = 0
  /\ settleK' = 0
  /\ camTicks' = t
  /\ sawObject' = saw
  /\ ranSequence' = TRUE

\* After the retry loop: the abort unless a detection was sent, then
\* receiver.nextPacket() and back to the main loop.
FinishSequence(sent, ok, a, t, saw) ==
  LET out == IF ~ok THEN Append(sent, AbortMessage) ELSE sent
  IN /\ camToArm' = camToArm \o out
     /\ camSent' = out
     /\ convToCam' = Tail(convToCam)
     /\ camPc' = "main"
     /\ attempt' = a
     /\ pollK' = 0
     /\ settleK' = 0
     /\ camTicks' = t
     /\ sawObject' = saw
     /\ ranSequence' = TRUE

\* One pass of the polling loop in attempt a: the count is read; an object
\* ends the loop and is sent, none leads into robot.step.
Poll(a, k, t) ==
  \E n \in ObjectCounts :
    IF n > 0
      THEN \E pos \in Positions, angle_deg \in AnglesDeg :
             FinishSequence(
               <<Detection(pos[1], pos[2], pos[3], AngleRad(angle_deg))>>,
               TRUE, a, t, TRUE)
      ELSE /\ camPc' = "poll"
           /\ attempt' = a
           /\ pollK' = k
           /\ camTicks' = t
           /\ sawObject' = FALSE
           /\ camSent' = <<>>
           /\ UNCHANGED <<settleK, ranSequence, convToCam, camToArm>>

\* the retries left after a failed attempt a
RetryLeft(a) == a < max_detection_retries - 1

\* The main loop's robot.step returns: the head of the queue is read.
CamMain ==
  /\ camPc = "main"
  /\ Len(camToArm) < MaxQueue
  /\ IF convToCam = <<>>
       THEN UNCHANGED <<camOwn, convToCam, camToArm>>
       ELSE IF Head(convToCam) = "STOP"
         THEN Poll(0, 0, 0)
         ELSE /\ convToCam' = Tail(convToCam)
              /\ UNCHANGED <<camOwn, camToArm>>
  /\ UNCHANGED <<armOwn, convOwn, convToArm, armToConv>>

\* The polling loop's robot.step returns.
CamPollStep ==
  /\ camPc = "poll"
  /\ Len(camToArm) < MaxQueue
  /\ IF pollK + 1 < PollSteps
       THEN Poll(attempt, pollK + 1, camTicks + 1)
       ELSE IF RetryLeft(attempt)
         THEN /\ camPc' = "settle"
              /\ settleK' = 0
              /\ camTicks' = camTicks + 1
              /\ UNCHANGED <<attempt, pollK, sawObject, camSent, ranSequence,
                             convToCam, camToArm>>
         ELSE FinishSequence(<<>>, FALSE, attempt, camTicks + 1, FALSE)
  /\ UNCHANGED <<armOwn, convOwn, convToArm, armToConv>>

\* The settle loop's robot.step returns.
CamSettleStep ==
  /\ camPc = "settle"
  /\ Len(camToArm) < MaxQueue
  /\ IF settleK + 1 < SettleSteps
       THEN /\ settleK' = settleK + 1
            /\ camTicks' = camTicks + 1
            /\ UNCHANGED <<camPc, attempt, pollK, sawObject, camSent,
                           ranSequence, convToCam, camToArm>>
       ELSE Poll(attempt + 1, 0, camTicks + 1)
  /\ UNCHANGED <<armOwn, convOwn, convToArm, armToConv>>

CamInit ==
  /\ camPc = "main"
  /\ attempt = 0
  /\ pollK = 0
  /\ settleK = 0
  /\ convToCam = <<>>
  /\ camTicks = 0
  /\ sawObject = FALSE
  /\ camSent = <<>>
  /\ ranSequence = FALSE

\* the conveyor's emitter queues a string for the camera
EnvStopSend(m) ==
  /\ Len(convToCam) < MaxQueue
  /\ convToCam' = Append(convToCam, m)
  /\ UNCHANGED <<armOwn, camOwn, convOwn, camToArm, convToArm, armToConv>>

\* the arm empties its camera queue
EnvArmDrain ==
  /\ camToArm # <<>>
  /\ camToArm' = <<>>
  /\ UNCHANGED <<armOwn, camOwn, convOwn, convToCam, convToArm, armToConv>>

\* ------------------------------------------------------------ the conveyor

\* the values a distance sensor is read at
Readings == {500, 800}

ConvInbox == {"START_CONV", "PING"}

\* StopCondition without the latch
StopConditionNoLatch(d1) == d1 < threshold

\* if distance1 < self.threshold and self.flag == 0
StopCondition(d1) == d1 < threshold /\ flag = 0

\* AfterArmMessage that does not act on START_CONV
AfterArmMessageIgnored == velocity

\* the velocity after the arm's message was handled: the head of the queue
\* is read, and START_CONV restores the speed
AfterArmMessage ==
  IF armToConv # <<>> /\ Head(armToConv) = "START_CONV" THEN speed ELSE velocity

\* if self.flag == 1 and current_time - self.stop_start_time >= self.stop_duration
DwellOver(f, t, since) == f = 1 /\ t - since >= stop_duration

\* if self.flag == 1 and distance2 < self.threshold
Unlatch(f, d2) == f = 1 /\ d2 < threshold

\* GoDownCondition without the one-shot latch
GoDownConditionNoLatch(d3) == has_ds3 /\ d3 < threshold3

\* if self.ds3 and not self.go_down_sent and distance3 < self.threshold3
GoDownCondition(d3) == has_ds3 /\ ~go_down_sent /\ d3 < threshold3

\* TimerExpired that waits for the time to pass the bound
TimerExpiredStrict(t) == timer > 0 /\ t > timer

\* if self.timer > 0 and current_time >= self.timer
TimerExpired(t) == timer > 0 /\ t >= timer

\* One iteration of run() with the three sensors read at d1, d2, d3.
ConvTick(d1, d2, d3) ==
  LET t == now + TimeStep
      distance3 == IF has_ds3 THEN d3 ELSE 1000
      v1 == AfterArmMessage
      stop == StopCondition(d1)
      v2 == IF stop THEN 0 ELSE v1
      since2 == IF stop THEN t ELSE stop_start_time
      f2 == IF stop THEN 1 ELSE flag
      v3 == IF DwellOver(f2, t, since2) THEN speed ELSE v2
      f3 == IF Unlatch(f2, d2) THEN 0 ELSE f2
      since3 == IF Unlatch(f2, d2) THEN -1 ELSE since2
      go == GoDownCondition(distance3)
      v4 == IF go THEN 0 ELSE v3
      sent4 == IF go THEN TRUE ELSE go_down_sent
      sent5 == IF sent4 /\ v4 = speed THEN FALSE ELSE sent4
      halt == TimerExpired(t)
  IN /\ convRunning
     /\ t <= MaxTime
     /\ Len(convToCam) < MaxQueue
     /\ Len(convToArm) < MaxQueue
     /\ now' = t
     /\ sensed' = <<d1, d2, d3>>
     /\ armToConv' = IF armToConv = <<>> THEN <<>> ELSE Tail(armToConv)
     /\ convToCam' = IF stop THEN Append(convToCam, "STOP") ELSE convToCam
     /\ convToArm' = IF go THEN Append(convToArm, "1") ELSE convToArm
     /\ flag' = f3
     /\ stop_start_time' = since3
     /\ go_down_sent' = sent5
     /\ velocity' = IF halt THEN 0 ELSE v4
     /\ convRunning' = ~halt
     /\ UNCHANGED <<timer, has_ds3, item, armOwn, camOwn, camToArm>>

ConvInit ==
  /\ velocity = speed
  /\ flag = 0
  /\ stop_start_time = -1
  /\ go_down_sent = FALSE
  /\ timer = 0
  /\ has_ds3 = TRUE
  /\ now = 0
  /\ convRunning = TRUE
  /\ sensed = <<800, 800, 800>>
  /\ item = "upstream"

Init == ArmInit /\ CamInit /\ ConvInit

NextArm ==
  \/ ArmStep
  \/ \E m \in CamMsgs : EnvCamSend(m)
  \/ \E m \in ConvMsgs : EnvConvSend(m)

SpecArm == Init /\ [][NextArm]_vars

NextCam ==
  \/ CamMain
  \/ CamPollStep
  \/ CamSettleStep
  \/ \E m \in CamInbox : EnvStopSend(m)
  \/ EnvArmDrain

SpecCam == Init /\ [][NextCam]_vars

\* the arm's emitter queues a string for the conveyor
EnvArmSend(m) ==
  /\ Len(armToConv) < MaxQueue
  /\ armToConv' = Append(armToConv, m)
  /\ UNCHANGED <<armOwn, camOwn, convOwn, camToArm, convToArm, convToCam>>

\* the camera takes a packet from its queue
EnvCamTake ==
  /\ convToCam # <<>>
  /\ convToCam' = Tail(convToCam)
  /\ UNCHANGED <<armOwn, camOwn, convOwn, camToArm, convToArm, armToConv>>

\* the arm takes a packet from its conveyor queue
EnvArmTake ==
  /\ convToArm # <<>>
  /\ convToArm' = Tail(convToArm)
  /\ UNCHANGED <<armOwn, camOwn, convOwn, camToArm, convToCam, armToConv>>

NextConv ==
  \/ \E d1, d2, d3 \in Readings : ConvTick(d1, d2, d3)
  \/ \E m \in ConvInbox : EnvArmSend(m)
  \/ EnvCamTake
  \/ EnvArmTake

SpecConv == Init /\ [][NextConv]_vars

\* ------------------------------------------------- one object, one signal

\* The camera sends the one detection of the scenario.
OnceDetection(m) ==
  /\ ~detSent
  /\ detSent' = TRUE
  /\ camToArm' = Append(camToArm, m)
  /\ UNCHANGED <<armProgram, convToArm, fresh, goSentAt>>
  /\ UNCHANGED <<camOwn, convOwn, convToCam>>

\* The conveyor sends the one grasp-ready "1" of the scenario; goSentAt keeps
\* the number of idle WAITING2 iterations before it (-1 outside WAITING2).
OnceGoDown ==
  /\ goSentAt = -2
  /\ goSentAt' = IF state = "WAITING2" THEN waitTicks ELSE -1
  /\ convToArm' = Append(convToArm, "1")
  /\ fresh' = TRUE
  /\ UNCHANGED <<armProgram, camToArm, detSent>>
  /\ UNCHANGED <<camOwn, convOwn, convToCam>>

NextCycle ==
  \/ ArmStep
  \/ \E m \in ValidDetections : OnceDetection(m)
  \/ OnceGoDown

SpecCycle == Init /\ [][NextCycle]_vars

\* Webots runs the arm's loop on every tick of the simulation.
FairCycle == SpecCycle /\ WF_vars(ArmStep)

\* ------------------------------------------------- a flooding conveyor

\* Grasp-ready messages queued before the arm has left WAITING2 in its
\* first cycle.
FloodSend ==
  /\ cycles <= 1
  /\ descents = 0
  /\ Len(convToArm) < FloodLen
  /\ convToArm' = Append(convToArm, "1")
  /\ fresh' = TRUE
  /\ UNCHANGED <<armProgram, camToArm, detSent, goSentAt>>
  /\ UNCHANGED <<camOwn, convOwn, convToCam>>

NextFlood ==
  \/ ArmStep
  \/ FloodSend
  \/ EnvCamSend(Detection(80000, 25000, 10000, 40000))

SpecFlood == Init /\ [][NextFlood]_vars

\* ------------------------------------------------------------ claims

InCycle == {"TRANSLATING", "WAITING2", "DESCENDING", "GRASPING", "ASCENDING",
            "TRANSLATING_BACK"}

\* C1: from one main-loop iteration to the next the arm state either stays
\* or moves to its single successor in the cycle WAITING -> TRANSLATING ->
\* WAITING2 -> DESCENDING -> GRASPING -> ASCENDING -> TRANSLATING_BACK ->
\* RELEASING -> WAITING, whatever is queued on the two channels.
C1_CycleOrder == [][state' = state \/ state' = Successor(state)]_vars

\* a full cycle was run and left, with messages queued on both channels
C1_Witness ==
  /\ completed = 1
  /\ state = "WAITING"
  /\ seen.at = "RELEASING"
  /\ camToArm # <<>>
  /\ convToArm # <<>>

\* float() accepts every token and there are exactly four
WellFormed(msg) == Len(msg) = 4 /\ \A i \in 1..Len(msg) : msg[i].num

\* C2: an iteration that reads a malformed detection string in WAITING (not
\* exactly four numeric fields) leaves the state WAITING, the lock clear and
\* the stored offset and angle as they were.
C2_MalformedIgnored ==
  [][(/\ state = "WAITING"
      /\ camToArm # <<>>
      /\ ~WellFormed(Head(camToArm))
      /\ camToArm' = <<>>)
     => (/\ state' = "WAITING"
         /\ ~object_detected_and_locked'
         /\ object_x' = object_x
         /\ object_angle' = object_angle)]_vars

\* C3: an iteration that reads the abort sentinel in WAITING stays in
\* WAITING, leaves the lock clear, commands no motor and sends nothing.
C3_AbortStaysIdle ==
  [][(/\ state = "WAITING"
      /\ camToArm # <<>>
      /\ Head(camToArm) = AbortMessage
      /\ camToArm' = <<>>)
     => (/\ state' = "WAITING"
         /\ ~object_detected_and_locked'
         /\ object_x' = 0
         /\ pose' = pose
         /\ armToConv' = armToConv)]_vars

\* the last iteration read the sentinel in WAITING, after a completed cycle
C3_Witness ==
  /\ seen = [at |-> "WAITING", msg |-> AbortMessage]
  /\ state = "WAITING"
  /\ completed = 1

\* the ticks of a whole sequence: three rounds of polls and two settles
MaxSequenceTicks ==
  max_detection_retries * PollSteps + (max_detection_retries - 1) * SettleSteps

\* C4: a detection sequence makes at most 3 attempts of at most 10 polls each
\* and lasts at most 40 ticks; it sends nothing before it ends, and when it
\* has ended it has sent exactly one message: four numeric fields if a poll
\* counted an object, the abort sentinel if and only if none did.
C4_OneReplyPerStop ==
  /\ attempt < max_detection_retries
  /\ pollK < PollSteps
  /\ camTicks <= MaxSequenceTicks
  /\ camPc # "main" => camSent = <<>> /\ ~sawObject
  /\ (camPc = "main" /\ ranSequence) =>
       /\ Len(camSent) = 1
       /\ WellFormed(camSent[1])
       /\ (camSent[1] = AbortMessage) <=> ~sawObject

\* a sequence ran out of retries after 40 ticks and sent the sentinel
C4_Witness ==
  /\ camPc = "main"
  /\ ranSequence
  /\ camTicks = MaxSequenceTicks
  /\ attempt = max_detection_retries - 1
  /\ camSent = <<AbortMessage>>
  /\ camToArm # <<>>

\* C5: within a cycle DESCENDING is entered once, and the arm leaves WAITING2
\* only on a grasp-ready message sent after the previous descent began.
C5_OneDescentPerSignal ==
  /\ [](descents <= 1)
  /\ [][(state = "WAITING2" /\ state' = "DESCENDING") => fresh]_vars

\* C6: START_CONV is sent by the step that leaves RELEASING and by no other,
\* and what the arm has sent is one START_CONV per completed cycle.
C6_OneStartConvPerCycle ==
  /\ [](armToConv = [i \in 1..completed |-> "START_CONV"])
  /\ [][armToConv' # armToConv => (state = "RELEASING" /\ state' = "WAITING")]_vars

\* two cycles were completed
C6_Witness == completed = 2 /\ Len(armToConv) = 2

\* the scenario of C7: offset 0.25, angle 0.4, and the "1" sent after three
\* idle iterations in WAITING2
Case7 ==
  /\ detSent
  /\ goSentAt = 3
  /\ object_x = 25000
  /\ object_angle = 40000

Done7 ==
  /\ state = "WAITING"
  /\ object_x = 0
  /\ ~object_detected_and_locked
  /\ armToConv = <<"START_CONV">>

\* C7: in that scenario the arm reaches RELEASING, sends START_CONV once and
\* ends in WAITING with the offset 0 and the lock clear.
C7_EndToEnd ==
  /\ Case7 ~> (state = "RELEASING")
  /\ Case7 ~> []Done7
  /\ [](Len(armToConv) <= 1)

C7_Witness ==
  /\ Done7
  /\ detSent
  /\ goSentAt = 3
  /\ object_angle = 40000
  /\ pose.wrist3 = BASE_WRIST3

\* C8: in TRANSLATING .. TRANSLATING_BACK no step changes the stored angle,
\* and the only change of the stored offset is the reset to 0 by the last
\* step of TRANSLATING_BACK.
C8_LockedDetectionKept ==
  [][(state \in InCycle)
     => (/\ object_angle' = object_angle
         /\ \/ object_x' = object_x
            \/ /\ state = "TRANSLATING_BACK"
               /\ translation_back_counter = 0
               /\ state' = "RELEASING"
               /\ object_x' = 0)]_vars

\* mid-cycle, the last iteration dropped a valid detection of another offset
C8_Witness ==
  /\ state \in InCycle
  /\ seen.at \in InCycle
  /\ seen.msg \in ValidDetections
  /\ seen.msg[2].val # object_x

\* C9: with one detection and one "1" sent, the arm is never in WAITING2
\* with the "1" already read and no descent pending.
C9_SignalBuffered ==
  (state = "WAITING2" /\ detSent /\ goSentAt # -2 /\ convToArm = <<>>)
    => go_down_received

\* a step of the conveyor's loop, and one that queued a STOP for the camera
ConvTicked == now' # now

StopSent == convToCam' = Append(convToCam, "STOP")

\* C10, as claimed: on every tick a STOP is sent exactly when the first
\* sensor reads below the threshold and the belt is not already stopped
\* (its velocity, once the arm's message is handled, is not 0).
C10_StopOnlyWhileMoving ==
  [][ConvTicked =>
       /\ StopSent <=> (sensed'[1] < threshold /\ AfterArmMessage # 0)
       /\ StopSent \/ convToCam' = convToCam]_vars

\* C10, amended: on every tick a STOP is sent exactly when the first sensor
\* reads below the threshold and the latch flag is 0 as the tick begins; that
\* tick ends with the belt at velocity 0 and the latch set, unless the second
\* sensor cleared it on the same tick; and the latch is cleared only on a
\* tick where the second sensor reads below the threshold.
C10_StopOnlyWhileUnlatched ==
  [][ConvTicked =>
       /\ StopSent <=> (sensed'[1] < threshold /\ flag = 0)
       /\ StopSent \/ convToCam' = convToCam
       /\ StopSent => /\ velocity' = 0
                      /\ \/ flag' = 1 /\ stop_start_time' = now'
                         \/ flag' = 0 /\ sensed'[2] < threshold
       /\ (flag = 1 /\ flag' = 0) => sensed'[2] < threshold]_vars

\* a STOP was sent on this tick, after a grasp-ready stop of an earlier tick
C10_Witness ==
  /\ flag = 1
  /\ stop_start_time = now
  /\ velocity = 0
  /\ go_down_sent
  /\ sensed = <<500, 800, 800>>
  /\ convToCam # <<>>

\* the belt stands still under the first-sensor latch, the dwell not yet over
\* when the next tick is taken
StoppedInDwell ==
  /\ flag = 1
  /\ velocity = 0
  /\ AfterArmMessage = 0
  /\ (now + TimeStep) - stop_start_time < stop_duration

\* C11: a tick taken while the belt is stopped by the first-sensor stop and
\* the dwell is not over, on which the second sensor reads below the
\* threshold (and the third sensor asks for no stop), ends with the belt at
\* its nominal velocity.
C11_SecondSensorResumes ==
  [][(/\ ConvTicked
      /\ StoppedInDwell
      /\ sensed'[2] < threshold
      /\ sensed'[3] >= threshold3)
     => velocity' = speed]_vars

\* the first-sensor latch is set and the dwell is over when the next tick is
\* taken
DwellElapsed ==
  /\ flag = 1
  /\ stop_start_time >= 0
  /\ (now + TimeStep) - stop_start_time >= stop_duration

\* C12: a tick taken once the dwell has elapsed since the latched stop ends
\* with the belt at its nominal velocity, whatever the sensors read, and with
\* the stop latch cleared.
C12_DwellResumesAndUnlatches ==
  [][(ConvTicked /\ DwellElapsed) => (velocity' = speed /\ flag' = 0)]_vars

\* a step of the conveyor's loop that queued a grasp-ready "1" for the arm
GoDownSent == convToArm' = Append(convToArm, "1")

\* C13: a tick that begins with go_down_sent set sends no "1"; a tick that
\* sends a "1" ends with go_down_sent set and the belt at velocity 0; and
\* go_down_sent is cleared only by a tick that ends with the belt at its
\* nominal velocity. So between two "1" the belt has returned to nominal.
C13_GoDownOneShot ==
  [][ConvTicked =>
       /\ GoDownSent \/ convToArm' = convToArm
       /\ go_down_sent => ~GoDownSent
       /\ GoDownSent => (go_down_sent' /\ velocity' = 0)
       /\ (go_down_sent /\ ~go_down_sent') => velocity' = speed]_vars

\* a second "1" was sent, after a resume, while the first is still queued
C13_Witness ==
  /\ convToArm = <<"1", "1">>
  /\ go_down_sent
  /\ velocity = 0
  /\ sensed[3] < threshold3

\* a step of the conveyor's loop that reads START_CONV from the arm
ConsumesStartConv ==
  /\ ConvTicked
  /\ armToConv # <<>>
  /\ Head(armToConv) = "START_CONV"

\* C14, as claimed: a tick that consumes START_CONV ends with the belt at its
\* nominal velocity, whatever the latches and the sensors.
C14_ResumeUnconditional ==
  [][ConsumesStartConv => velocity' = speed]_vars

\* C14, amended: a tick that consumes START_CONV pops it and, whatever the two
\* latches, ends with the belt at its nominal velocity unless a stop fires on
\* that same tick: the first-sensor stop (first sensor below the threshold
\* with flag 0), the grasp-ready stop (third sensor below its threshold with
\* go_down_sent clear) or the hard timer; then it ends at velocity 0.
C14_ResumeUnlessStopped ==
  [][ConsumesStartConv =>
       /\ armToConv' = Tail(armToConv)
       /\ StopSent <=> (sensed'[1] < threshold /\ flag = 0)
       /\ GoDownSent <=> (has_ds3 /\ sensed'[3] < threshold3 /\ ~go_down_sent)
       /\ velocity' = IF StopSent \/ GoDownSent \/ TimerExpired(now')
                        THEN 0 ELSE speed]_vars

\* the belt runs inside the dwell with the stop latch set and the first and
\* third sensors below their thresholds: only START_CONV restarts it there
C14_Witness ==
  /\ flag = 1
  /\ stop_start_time >= 0
  /\ now - stop_start_time < stop_duration
  /\ velocity = speed
  /\ ~go_down_sent
  /\ sensed[1] < threshold
  /\ sensed[3] < threshold3

\* a step that ends an iteration of the camera's main loop
CamIterationEnds == (CamMain \/ CamPollStep \/ CamSettleStep) /\ camPc' = "main"

\* C15: every iteration of a reader's main loop leaves its inbound queues
\* empty: the arm its camera and conveyor queues, the conveyor its arm queue,
\* the camera its queue from the conveyor.
C15_ChannelsDrained ==
  [][/\ ArmStep => (camToArm' = <<>> /\ convToArm' = <<>>)
     /\ ConvTicked => armToConv' = <<>>
     /\ CamIterationEnds => convToCam' = <<>>]_vars

\* a well-formed detection of an object: four numeric fields, offset not 0
Usable(msg) == WellFormed(msg) /\ msg[2].val # 0

\* the first usable message of a queue, in FIFO order
FirstUsable(q) ==
  q[CHOOSE i \in 1..Len(q) : Usable(q[i]) /\ \A j \in 1..(i - 1) : ~Usable(q[j])]

\* C16: an iteration of the arm in WAITING, unlocked, whose camera queue holds
\* a usable detection, accepts the first such detection of the queue (offset
\* and angle stored, cycle started) whatever is queued ahead of it, and
\* discards the rest.
C16_FirstValidWins ==
  [][(/\ ArmStep
      /\ state = "WAITING"
      /\ ~object_detected_and_locked
      /\ \E i \in 1..Len(camToArm) : Usable(camToArm[i]))
     => (/\ object_x' = FirstUsable(camToArm)[2].val
         /\ object_angle' = FirstUsable(camToArm)[4].val
         /\ state' = "TRANSLATING"
         /\ camToArm' = <<>>)]_vars

\* C17: when TRANSLATING_BACK has ended, it has issued as many move_horiz
\* calls as TRANSLATING issued in the same cycle.
C17_SameStepCount ==
  state = "RELEASING" => back_calls = translate_calls

\* C18: whenever the arm is in WAITING, before a cycle or after one, the IK
\* reference point (cx0, cy0) is the home-pose value.
C18_ReferenceRestored ==
  state = "WAITING" => (cx0 = HomeCx /\ cy0 = HomeCy)

\* ------------------------------------------ the cell with one object

\* the places of the object along the belt: before the first sensor, in each
\* sensor's beam and between them, and lifted off by the gripper
Places == <<"upstream", "at1", "mid12", "at2", "mid23", "at3", "taken">>

\* ds1/ds2/ds3.getValue() with the object at item: below the threshold in the
\* beam of sensor k, at 800 elsewhere
Reading(k) == IF item = Places[2 * k] THEN 500 ELSE 800

\* the conveyor's clock up to the shifts of time its code cannot observe:
\* with timer = 0, current_time is read only in
\* current_time - stop_start_time, and only while flag = 1
ClockNormalised ==
  IF flag = 1
    THEN [now |-> IF now - stop_start_time >= stop_duration
                    THEN stop_duration ELSE now - stop_start_time,
          since |-> 0]
    ELSE [now |-> 0, since |-> stop_start_time]

ClockIsNormal ==
  now = ClockNormalised.now /\ stop_start_time = ClockNormalised.since

\* the origin of time is shifted
ClockRebase ==
  /\ timer = 0
  /\ ~ClockIsNormal
  /\ now' = ClockNormalised.now
  /\ stop_start_time' = ClockNormalised.since
  /\ UNCHANGED <<velocity, flag, go_down_sent, timer, has_ds3, convRunning,
                 sensed, item>>
  /\ UNCHANGED <<armOwn, camOwn, camToArm, convToArm, armToConv, convToCam>>

\* The running belt carries the object one place on; it leaves a sensor's
\* beam after the conveyor has read it there.
BeltCarries ==
  /\ velocity = speed
  /\ \E i \in 1..5 :
       /\ item = Places[i]
       /\ i % 2 = 0 => sensed[i \div 2] < threshold
       /\ item' = Places[i + 1]
  /\ UNCHANGED <<velocity, flag, stop_start_time, go_down_sent, timer, has_ds3,
                 now, convRunning, sensed>>
  /\ UNCHANGED <<armOwn, camOwn, camToArm, convToArm, armToConv, convToCam>>

\* The closed gripper lifts the object out of the third sensor's beam.
ItemLifted ==
  /\ item = "at3"
  /\ state = "ASCENDING"
  /\ pose.fingers = FingerClosed
  /\ item' = "taken"
  /\ UNCHANGED <<velocity, flag, stop_start_time, go_down_sent, timer, has_ds3,
                 now, convRunning, sensed>>
  /\ UNCHANGED <<armOwn, camOwn, camToArm, convToArm, armToConv, convToCam>>

\* the arm's iteration; it ascends with the object in its gripper
CellArmStep == (state = "ASCENDING" => item # "at3") /\ ArmStep

\* the camera's robot.step returns
CellCamStep == CamMain \/ CamPollStep \/ CamSettleStep

\* the conveyor's iteration, its sensors reading the object; the arm, which
\* runs on every tick, has read what was queued for it
CellConvTick ==
  /\ ClockIsNormal
  /\ camToArm = <<>>
  /\ convToArm = <<>>
  /\ ConvTick(Reading(1), Reading(2), Reading(3))

NextCell ==
  \/ CellArmStep
  \/ CellCamStep
  \/ CellConvTick
  \/ ClockRebase
  \/ BeltCarries
  \/ ItemLifted

SpecCell == Init /\ [][NextCell]_vars

\* Webots runs the three loops on every tick, and a running belt moves
FairCell ==
  /\ SpecCell
  /\ WF_vars(CellArmStep)
  /\ WF_vars(CellCamStep)
  /\ WF_vars(CellConvTick)
  /\ WF_vars(ClockRebase)
  /\ WF_vars(BeltCarries)
  /\ WF_vars(ItemLifted)

\* C19, in the case the claim names: with no hard timer, once the camera has
\* answered a STOP with the abort sentinel, whenever the belt is stopped it
\* eventually runs at its nominal velocity again.
C19_BeltResumes ==
  (camSent = <<AbortMessage>> /\ velocity = 0) ~> (velocity = speed)

\* ------------------------------------------ the conveyor with a hard timer

\* timer as given on the command line, in ms: not configured, between two
\* ticks, and on a tick
TimerChoices == {0, 100, 128}

\* ConveyorController(speed, timer).__init__
ConvInitTimed ==
  /\ velocity = speed
  /\ flag = 0
  /\ stop_start_time = -1
  /\ go_down_sent = FALSE
  /\ timer \in TimerChoices
  /\ has_ds3 = TRUE
  /\ now = 0
  /\ convRunning = TRUE
  /\ sensed = <<800, 800, 800>>
  /\ item = "upstream"

InitTimed == ArmInit /\ CamInit /\ ConvInitTimed

SpecTimed == InitTimed /\ [][NextConv]_vars

\* C20: a tick ends the loop exactly when the timer is configured and the
\* simulated time is at or past it, and then leaves the belt at velocity 0;
\* once the loop has ended the conveyor takes no tick, sends nothing and the
\* belt stays at 0; with timer = 0 the loop never ends.
C20_HardTimer ==
  /\ [][/\ ConvTicked => (convRunning' <=> ~(timer > 0 /\ now' >= timer))
        /\ (ConvTicked /\ ~convRunning') => velocity' = 0
        /\ ~convRunning =>
             /\ ~ConvTicked
             /\ velocity' = 0
             /\ ~convRunning'
             /\ ~StopSent
             /\ ~GoDownSent]_vars
  /\ [](timer = 0 => convRunning)

\* the loop ended on the first tick past a timer of 100 ms, having sent a
\* STOP and a grasp-ready message before
C20_Witness ==
  /\ ~convRunning
  /\ timer = 100
  /\ now = 128
  /\ velocity = 0
  /\ convToCam # <<>>
  /\ convToArm # <<>>

\* ------------------------------------------------- the solver on its own

\* offsets a detection may carry
KinOffsets == {25000, -10000, -37289, -77289}

\* values of self.cx0: the home value, the home value moved by an offset, and
\* the 0 that TRANSLATING_BACK leaves
KinRefs == {0, HomeCx} \cup {HomeCx + x : x \in KinOffsets}

\* arguments of move_horiz
KinX == {-30000, -20000, -10000, 0, 10000, 25000, 40000, 60000, 80000, 100000}

\* arguments of move_vert
KinZ == {AscendStart, DescendDepth, -30000, HomeCy, -27000, -20000, -10000, 0,
         10000, 20000, 40000}

\* __init__, with the reference point at any of its values
ArmInitKin ==
  /\ state = "WAITING"
  /\ object_x = 0
  /\ object_angle = 0
  /\ go_down_received = FALSE
  /\ object_detected_and_locked = FALSE
  /\ translation_back_counter = 0
  /\ cx0 \in KinRefs
  /\ cy0 = HomeCy
  /\ pose = [pan |-> BASE_SHOULDER_PAN, reach |-> <<HomeCx, HomeCy>>,
             wrist3 |-> BASE_WRIST3, fingers |-> FingerOpen]
  /\ joints = [raised |-> FALSE, theta |-> BASE_SHOULDER_LIFT,
               phi |-> BASE_ELBOW]
  /\ camToArm = <<>>
  /\ convToArm = <<>>
  /\ armToConv = <<>>
  /\ cycles = 0
  /\ descents = 0
  /\ fresh = FALSE
  /\ waitTicks = 0
  /\ completed = 0
  /\ seen = [at |-> "WAITING", msg |-> <<>>]
  /\ translate_calls = 0
  /\ back_calls = 0
  /\ fwd_targets = <<>>
  /\ back_targets = <<>>
  /\ issued = <<>>
  /\ detSent = FALSE
  /\ goSentAt = -2

InitKin == ArmInitKin /\ CamInit /\ ConvInit

kinRest == <<state, object_x, object_angle, go_down_received,
             object_detected_and_locked, translation_back_counter, cx0, cy0,
             cycles, descents, fresh, waitTicks, completed, seen,
             translate_calls, back_calls, fwd_targets, back_targets, issued,
            detSent, goSentAt>>

\* one call move_horiz(X)
KinHoriz(X) ==
  /\ pose' = [pose EXCEPT !.reach = MoveHoriz(X)]
  /\ joints' = SetJoints(MoveHoriz(X))
  /\ UNCHANGED <<kinRest, camToArm, convToArm, armToConv>>
  /\ UNCHANGED <<camOwn, convOwn, convToCam>>

\* one call move_vert(Z)
KinVert(Z) ==
  /\ pose' = [pose EXCEPT !.reach = MoveVert(Z)]
  /\ joints' = SetJoints(MoveVert(Z))
  /\ UNCHANGED <<kinRest, camToArm, convToArm, armToConv>>
  /\ UNCHANGED <<camOwn, convOwn, convToCam>>

NextKin ==
  \/ \E X \in KinX : KinHoriz(X)
  \/ \E Z \in KinZ : KinVert(Z)

SpecKin == InitKin /\ [][NextKin]_vars

\* |L1 - L2| <= R <= L1 + L2 for the point p
InAnnulus(p) ==
  LET xc == Tenth(p[1])
      yc == Tenth(p[2])
      inner == Tenth(L2) - Tenth(L1)
      outer == Tenth(L1) + Tenth(L2)
  IN /\ inner * inner <= xc * xc + yc * yc
     /\ xc * xc + yc * yc <= outer * outer

\* the angle a + b
AngleAdd(a, b) ==
  <<(a[1] * b[1] - a[2] * b[2]) \div Resolution,
    (a[2] * b[1] + a[1] * b[2]) \div Resolution>>

\* (L1*cos(theta) + L2*cos(theta+phi), L1*sin(theta) + L2*sin(theta+phi))
ForwardKinematics(theta, phi) ==
  LET both == AngleAdd(theta, phi)
  IN <<(Tenth(L1) * theta[1] + Tenth(L2) * both[1]) \div Resolution,
       (Tenth(L1) * theta[2] + Tenth(L2) * both[2]) \div Resolution>>

Near(u, v) ==
  /\ u[1] - v[1] <= Tolerance /\ v[1] - u[1] <= Tolerance
  /\ u[2] - v[2] <= Tolerance /\ v[2] - u[2] <= Tolerance

\* C21: whenever the point last handed to the solver lies in the annulus
\* |L1 - L2| <= R <= L1 + L2, the solver has not raised and the forward
\* kinematics of the angles commanded to lift and elbow give that point back,
\* within the tolerance of the fixed-point arithmetic.
C21_ForwardKinematics ==
  InAnnulus(pose.reach) =>
    /\ ~joints.raised
    /\ Near(ForwardKinematics(joints.theta, joints.phi),
            <<Tenth(pose.reach[1]), Tenth(pose.reach[2])>>)

\* move_vert has solved a point just outside the inner circle, with the
\* reference at 0
C21_Witness ==
  /\ cx0 = 0
  /\ pose.reach = <<0, HomeCy + 27000>>
  /\ InAnnulus(pose.reach)
  /\ ~joints.raised
  /\ joints.theta # BASE_SHOULDER_LIFT

\* C22: the solver is total: no call of move_horiz or move_vert raises,
\* whatever the point, the points outside the annulus and the point at
\* distance 0 included.
C22_SolverTotal == ~joints.raised

\* the sequence s backwards
Reverse(s) == [i \in 1..Len(s) |-> s[Len(s) + 1 - i]]

\* C23: when the arm enters RELEASING, the points TRANSLATING_BACK handed to
\* move_horiz are those TRANSLATING handed to it in this cycle, in reverse
\* order, and the last of them is the home point (horizontal offset 0).
C23_RetracesPath ==
  state = "RELEASING" =>
    /\ back_targets = Reverse(fwd_targets)
    /\ back_targets # <<>>
    /\ back_targets[Len(back_targets)] = <<HomeCx, HomeCy>>

\* C24: the fingers are commanded closed while the arm is in ASCENDING,
\* TRANSLATING_BACK and on entering RELEASING; an iteration of RELEASING
\* commands, in this order, the pan a half-turn away, the fingers open, the
\* pan home, and then sends START_CONV; START_CONV is sent only by that last
\* statement, with the fingers commanded open and the pan commanded home.
C24_GripperAndRelease ==
  /\ [](state \in {"ASCENDING", "TRANSLATING_BACK", "RELEASING"}
          => pose.fingers = FingerClosed)
  /\ [](seen.at = "RELEASING" =>
          issued = << [pan |-> BASE_SHOULDER_PAN - PI, fingers |-> FingerClosed,
                       send |-> FALSE],
                      [pan |-> BASE_SHOULDER_PAN - PI, fingers |-> FingerOpen,
                       send |-> FALSE],
                      [pan |-> BASE_SHOULDER_PAN, fingers |-> FingerOpen,
                       send |-> FALSE],
                      [pan |-> BASE_SHOULDER_PAN, fingers |-> FingerOpen,
                       send |-> TRUE] >>)
  /\ [](\A i \in 1..Len(issued) :
          issued[i].send => /\ issued[i].fingers = FingerOpen
                            /\ issued[i].pan = BASE_SHOULDER_PAN)
  /\ [][armToConv' # armToConv =>
          /\ state = "RELEASING"
          /\ armToConv' = Append(armToConv, "START_CONV")
          /\ \E i \in 1..Len(issued') : issued'[i].send]_vars

\* the last iteration was one of RELEASING: it sent START_CONV and left the
\* fingers open and the pan at home
C24_Witness ==
  /\ seen.at = "RELEASING"
  /\ state = "WAITING"
  /\ Len(issued) = 4
  /\ armToConv # <<>>
  /\ pose.fingers = FingerOpen
  /\ pose.pan = BASE_SHOULDER_PAN

\* C25: between two iterations of the arm's loop the lock is set exactly in
\* TRANSLATING, WAITING2, DESCENDING, GRASPING, ASCENDING and
\* TRANSLATING_BACK, and the stored offset is nonzero exactly when the lock
\* is set; the lock is clear in WAITING and RELEASING, and an iteration of
\* WAITING that reads a nonzero offset always starts a cycle.
C25_LockMatchesCycle ==
  /\ [](object_detected_and_locked <=>
          state \in {"TRANSLATING", "WAITING2", "DESCENDING", "GRASPING",
                     "ASCENDING", "TRANSLATING_BACK"})
  /\ []((object_x # 0) <=> object_detected_and_locked)
  /\ [](state \in {"WAITING", "RELEASING"} => ~object_detected_and_locked)
  /\ [][(/\ state = "WAITING"
         /\ camToArm # <<>>
         /\ camToArm' = <<>>
         /\ object_x' # 0)
        => (state' = "TRANSLATING" /\ object_detected_and_locked')]_vars

\* the second cycle is on its way back: the lock was cleared after the first
\* cycle and set again
C25_Witness ==
  /\ state = "TRANSLATING_BACK"
  /\ cycles = 2
  /\ completed = 1
  /\ object_detected_and_locked
  /\ object_x # 0

====
